---- MODULE Spec2Model ----
(***************************************************************************)
(* midboss: a small state container (src/lib/index.ts).                    *)
(*                                                                         *)
(* The source file holds two iterations of createMidboss:                  *)
(*   variant "A" (lines 78-195): every write goes through immer.produce    *)
(*       and onStateChanged (save, onSave); getState deep-freezes.         *)
(*   variant "B" (lines 305-429): the mutation strategy is chosen by the   *)
(*       options useImmer / useClone / useFreeze; tryCloneAndFreeze and    *)
(*       tryFreeze do the cloning, freezing and saving.                    *)
(* A container of the model is one createMidboss(...) closure of either    *)
(* variant, with one choice of options.                                    *)
(*                                                                         *)
(* A snapshot is an object {count, nested: {v}}; the model keeps the two   *)
(* numbers and, for the object currently referenced by `state`, whether    *)
(* its top level and its nested object are frozen.                         *)
(*                                                                         *)
(* Libraries the source calls, as they behave:                             *)
(*   PubSub (pubsub-js): subscribe stores the callback under a fresh token *)
(*     'uid_' + (++lastUid); delivery walks the topic's subscribers with   *)
(*     for-in (insertion order, a key deleted before it is visited is      *)
(*     skipped); publish/publishSync return at once, delivering nothing    *)
(*     and scheduling nothing, when the topic has no subscriber; publish   *)
(*     defers delivery with setTimeout(deliver, 0). Topics are             *)
(*     hierarchical: a message published to 'a.b' is delivered to the      *)
(*     subscribers of 'a.b' and then to those of 'a'. Tokens and topics    *)
(*     belong to the PubSub module, which all containers share.            *)
(*   flavor-saver: create(key, version, fields) gives a saver whose        *)
(*     save(state) writes the slot and whose restore(fallback) returns     *)
(*     what the slot holds for that version, else the fallback.            *)
(*   immer.produce(base, recipe): returns base itself when the recipe      *)
(*     changes nothing, else a new frozen tree.                            *)
(*   _.assign / _.cloneDeep (lodash): shallow merge / deep copy.           *)
(***************************************************************************)
EXTENDS Integers, Sequences, FiniteSets, TLC

\* Bounds of the model: the subscribe calls made, the deferred deliveries
\* that may be waiting at once.
MaxUid == 2
MaxPending == 2
\* The delivery rounds that may be nested in one another (a callback that
\* writes synchronously starts a round inside the round that called it).
MaxDepth == 2

\* The values a field takes.
Vals == {0, 1}
Keys == {"count", "nested"}

(***************************************************************************)
(* Values.                                                                 *)
(***************************************************************************)
Obj(c, n) == [tag |-> "obj", count |-> c, nested |-> n]
Undefined == [tag |-> "undefined", count |-> 0, nested |-> 0]
\* An empty persistence slot / a hook that was never called.
None == [tag |-> "none", count |-> 0, nested |-> 0]

\* initialState: the object handed to createMidboss.
initialState == Obj(0, 0)

\* Partial<T>: the partial updates, each a function from some keys to values.
Changes == UNION {[K -> Vals] : K \in SUBSET Keys}

\* _.assign(target, changes) on a snapshot value.
assign(s, changes) ==
    Obj(IF "count" \in DOMAIN changes THEN changes["count"] ELSE s.count,
        IF "nested" \in DOMAIN changes THEN changes["nested"] ELSE s.nested)

\* _.assign({}, state, changes): sources that are undefined are skipped.
assignFresh(s, changes) ==
    IF s.tag = "obj" THEN assign(s, changes) ELSE assign(Obj(0, 0), changes)

(***************************************************************************)
(* Producers: the edit functions callers hand to produce.                  *)
(*   "assign"    draft => _.assign(draft, changes)                         *)
(*   "setNested" draft => { draft.nested.v = v }                           *)
(***************************************************************************)
\* The producer setState is said to be sugar for.
AssignProducer(c) == [kind |-> "assign", changes |-> c, v |-> 0]

\* The producers the callers of the model use.
Producers ==
    {AssignProducer([k \in {"count"} |-> v]) : v \in Vals}
    \cup {[kind |-> "setNested", changes |-> <<>>, v |-> v] : v \in Vals}

\* A producer run on undefined: _.assign(undefined, c) makes a throw-away
\* object, a property access throws a TypeError.
producerThrows(p, s) == s.tag # "obj" /\ p.kind = "setNested"

\* The draft after the producer ran.
applyProducer(p, s) ==
    IF s.tag # "obj" THEN s
    ELSE IF p.kind = "assign" THEN assign(s, p.changes)
    ELSE Obj(s.count, p.v)

VARIABLES
    options,       \* _options (and which iteration of createMidboss made the container)
    state,         \* let state
    topFrozen,     \* Object.isFrozen(state)
    nestedFrozen,  \* Object.isFrozen(state.nested)
    isRehydrated,  \* let isRehydrated
    storage,       \* the persistence slot 'state:' + stateKey, as last saved
    onSaved,       \* the last argument options.onSave was called with
    subs,          \* PubSub's subscribers of the topic stateKey, in insertion order
    lastUid,       \* PubSub's token counter
    unsubscribed,  \* history: the tokens unSubscribe has been called with
    pending,       \* deliveries scheduled by PubSub.publish and not yet run
    dispatch,      \* the delivery rounds in progress (a stack, innermost last)
    backend,       \* the persistence backend: "ok", or "failing" (quota exceeded, absent)
    otherSubs,     \* PubSub's subscribers of other containers' topics, in insertion order
    optionsSet     \* history: setOptions has been called

vars == <<options, state, topFrozen, nestedFrozen, isRehydrated, storage,
          onSaved, subs, lastUid, unsubscribed, pending, dispatch,
          backend, otherSubs, optionsSet>>

\* What the container's own operations never touch.
env == <<backend, otherSubs, optionsSet>>

Tokens(s) == {s[i].token : i \in 1..Len(s)}
TokenSeq(s) == [i \in 1..Len(s) |-> s[i].token]
Top == dispatch[Len(dispatch)]

(***************************************************************************)
(* The effects of one call are threaded through a record ("world"): the    *)
(* container's variables the call may change, and the sequence of events   *)
(* (save, onSave, publish) in the order the call makes them.               *)
(***************************************************************************)
World ==
    [state |-> state, topFrozen |-> topFrozen, nestedFrozen |-> nestedFrozen,
     isRehydrated |-> isRehydrated, storage |-> storage, onSaved |-> onSaved,
     pending |-> pending, dispatch |-> dispatch, events |-> <<>>, threw |-> FALSE]

Event(ev, s) == [ev |-> ev, s |-> s]

\* saver.save(nextState). With the backend failing (quota exceeded, no
\* storage) the slot is not written and the call returns normally, as the
\* saver's contract has it: the source makes the call with no handler of its
\* own around it.
save(w, s) ==
    IF backend = "ok"
    THEN [w EXCEPT !.storage = s, !.events = Append(@, Event("save", s))]
    ELSE [w EXCEPT !.events = Append(@, Event("saveFailed", s))]

\* options.onSave(nextState)
onSave(w, s) ==
    [w EXCEPT !.onSaved = s, !.events = Append(@, Event("onSave", s))]

\* Variant A, onStateChanged(state, saver, options).
onStateChanged(w, s) ==
    LET w1 == IF options.useLocalStorage THEN save(w, s) ELSE w
    IN  IF options.onSave THEN onSave(w1, s) ELSE w1

\* deepFreeze(state)
deepFreeze(w) == [w EXCEPT !.topFrozen = TRUE, !.nestedFrozen = TRUE]

\* Variant B, tryCloneAndFreeze(x, saver, options); onState says that x is the
\* object `state` references (so a freeze is a freeze of that object).
tryCloneAndFreeze(w, s, onState) ==
    LET w0 == IF ~options.useImmer /\ ~options.useClone /\ options.useFreeze
                 /\ onState /\ s.tag = "obj"
              THEN [w EXCEPT !.topFrozen = TRUE]
              ELSE w
        w1 == IF options.useLocalStorage THEN save(w0, s) ELSE w0
    IN  IF options.onSave THEN onSave(w1, s) ELSE w1

\* Whether the object tryCloneAndFreeze returns is a copy (_.cloneDeep).
returnsClone == options.variant = "B" /\ ~options.useImmer /\ options.useClone

\* Variant B, tryFreeze(state, options): it has no return statement.
tryFreeze(s) == Undefined

\* immer.produce(state, recipe), the recipe leaving the draft equal to next.
immerProduce(w, next) ==
    IF next = w.state THEN w
    ELSE [w EXCEPT !.state = next, !.topFrozen = TRUE, !.nestedFrozen = TRUE]

(***************************************************************************)
(* PubSub.                                                                 *)
(***************************************************************************)
\* Topics, as their '.'-separated segments. The container's stateKey is
\* 'app.user'; other containers of the page have the stateKeys 'app' and
\* 'menu'.
stateKey == <<"app", "user">>
OtherKeys == {<<"app">>, <<"menu">>}

\* The topics a message published to `topic` is also delivered to: in
\* deliver(), topic = topic.substr(0, topic.lastIndexOf('.')) while there is
\* a '.'.
AncestorTopics(topic) == {SubSeq(topic, 1, n) : n \in 1..(Len(topic) - 1)}

\* The subscribers a message published to stateKey reaches beyond the
\* container's own: those of its ancestor topics.
Heard == SelectSeq(otherSubs, LAMBDA x : x.topic \in AncestorTopics(stateKey))

\* The tokens a delivery for stateKey walks: the topic's own subscribers,
\* then the ancestor topic's.
RoundKeys == TokenSeq(subs) \o TokenSeq(Heard)

\* deliver(): one walk over the subscribers the topic has when it starts.
\* start, called and received are the round's history: who was subscribed at
\* its start, who has been called, with which argument (None for a
\* subscriber that takes none); selfUnsub, who unsubscribed itself in its own
\* call.
NewRound(origin) ==
    [origin |-> origin, keys |-> RoundKeys, start |-> RoundKeys,
     called |-> <<>>, received |-> <<>>, selfUnsub |-> {}]

\* PubSub.publishSync(stateKey): deliver() runs inside the call.
publishSyncDeferred(w, op) ==
    LET w1 == [w EXCEPT !.events = Append(@, Event("publishSync", None))]
    IN  IF RoundKeys = <<>> THEN w1 ELSE [w1 EXCEPT !.pending = @ + 1]

publishSync(w, op) ==
    LET w1 == [w EXCEPT !.events = Append(@, Event("publishSync", None))]
    IN  IF RoundKeys = <<>> THEN w1
        ELSE [w1 EXCEPT !.dispatch = Append(@, NewRound(op))]

\* PubSub.publish(stateKey): setTimeout(deliver, 0).
publishCoalescing(w) ==
    LET w1 == [w EXCEPT !.events = Append(@, Event("publish", None))]
    IN  IF RoundKeys = <<>> \/ w.pending > 0 THEN w1 ELSE [w1 EXCEPT !.pending = @ + 1]

publish(w) ==
    LET w1 == [w EXCEPT !.events = Append(@, Event("publish", None))]
    IN  IF RoundKeys = <<>> THEN w1 ELSE [w1 EXCEPT !.pending = @ + 1]

\* if (sync) PubSub.publishSync(stateKey) else PubSub.publish(stateKey)
publishBy(w, sync, op) == IF sync THEN publishSync(w, op) ELSE publish(w)

\* PubSub.unsubscribe(token): delete the token's entry.
unsubscribeNoop(s, t) == s

unsubscribeTopic(s, t) == <<>>

unsubscribe(s, t) == SelectSeq(s, LAMBDA x : x.token # t)

(***************************************************************************)
(* The container's operations, as functions of the world.                  *)
(***************************************************************************)
\* getState(): the world after the call.
getState(w) ==
    IF options.variant = "A"
    THEN IF ~w.topFrozen THEN deepFreeze(w) ELSE w
    ELSE tryCloneAndFreeze(w, w.state, TRUE)

\* setState(changes, sync)
setState(w, changes, sync) ==
    LET w1 ==
          IF options.variant = "A"
          THEN LET wi == immerProduce(w, assign(w.state, changes))
               IN  onStateChanged(wi, wi.state)
          ELSE IF options.useImmer
          THEN immerProduce(w, assign(w.state, changes))
          ELSE [w EXCEPT !.state = tryFreeze(assignFresh(w.state, changes)),
                         !.topFrozen = FALSE, !.nestedFrozen = FALSE]
    IN  publishBy(w1, sync, "setState")

\* The value of sync when the caller leaves it out: setState(changes, sync =
\* false), produce(producer, sync = true).
syncDefaultSwapped == TRUE

syncDefaultSetState == FALSE

syncDefaultProduce == TRUE

\* rehydrate(changes): setState(changes), sync left out; then the latch.
rehydrate(w, changes) ==
    IF ~w.isRehydrated
    THEN [setState(w, changes, syncDefaultSetState) EXCEPT !.isRehydrated = TRUE]
    ELSE w

\* rehydrate(a) on a container whose options.onSave hook calls rehydrate(b)
\* the first time it runs. Variant A calls the hook from setState
\* (onStateChanged), before rehydrate sets isRehydrated; variant B's setState
\* calls no hook.
rehydrateHooked(w, a, b) ==
    IF w.isRehydrated THEN w
    ELSE IF options.variant = "A"
    THEN LET wi == immerProduce(w, assign(w.state, a))
             ws == IF options.useLocalStorage THEN save(wi, wi.state) ELSE wi
             wh == IF options.onSave
                   THEN rehydrate(onSave(ws, wi.state), b)
                   ELSE ws
         IN  [publishBy(wh, syncDefaultSetState, "setState")
                 EXCEPT !.isRehydrated = TRUE]
    ELSE rehydrate(w, a)

\* produce(producer, sync)
produce(w, p, sync) ==
    IF options.variant = "A"
    THEN LET wi == immerProduce(w, applyProducer(p, w.state))
         IN  publishBy(onStateChanged(wi, wi.state), sync, "produce")
    ELSE IF options.useImmer
    THEN publishBy(immerProduce(w, applyProducer(p, w.state)), sync, "produce")
    ELSE IF producerThrows(p, w.state)
    THEN [w EXCEPT !.threw = TRUE]
    ELSE \* let nextState = _.cloneDeep(state); producer(nextState);
         \* nextState = tryCloneAndFreeze(nextState, ...): `state` is not assigned
         publishBy(tryCloneAndFreeze(w, applyProducer(p, w.state), FALSE),
                   sync, "produce")

\* A caller takes getState() and tries to write a field of what it got:
\* key "count" is `getState().count = v`, key "nested" is
\* `getState().nested.v = v`. A write to a frozen object is refused, a write
\* to a copy changes the copy.
mutateReturned(w, key, v) ==
    LET w1 == getState(w)
        lands == /\ w1.state.tag = "obj"
                 /\ ~returnsClone
                 /\ IF key = "count" THEN ~w1.topFrozen ELSE ~w1.nestedFrozen
    IN  IF lands
        THEN [w1 EXCEPT !.state = IF key = "count" THEN Obj(v, w1.state.nested)
                                  ELSE Obj(w1.state.count, v)]
        ELSE w1

(***************************************************************************)
(* Construction.                                                           *)
(***************************************************************************)
\* saver.restore(initialState) of a saver created for the slot's key: what
\* the slot holds when it was saved under the same version, else the
\* fallback.
restore(slot, fallback, sameVersion) ==
    IF sameVersion /\ slot.tag = "obj" THEN slot ELSE fallback

\* The first getState() of a container created over the slot: the restored
\* state (no onRestore hook), which immer.produce(state, draft => {}),
\* tryCloneAndFreeze and deepFreeze leave equal to itself.
createMidboss(slot, fallback, sameVersion) ==
    IF options.useLocalStorage THEN restore(slot, fallback, sameVersion) ELSE fallback

Variants == {"A", "B"}

\* The options the containers of the model are built with. Variant A reads
\* only useLocalStorage and onSave; variant B reads useClone and useFreeze
\* only when useImmer is off. The containers persist and have an onSave hook
\* (with either switched off the call it guards is simply not made).
OptionSets ==
    {o \in [variant : Variants, useImmer : BOOLEAN, useClone : BOOLEAN,
            useFreeze : BOOLEAN, useLocalStorage : {TRUE}, onSave : {TRUE}] :
        /\ o.variant = "A" => o.useImmer /\ ~o.useClone /\ ~o.useFreeze
        /\ o.useImmer => ~o.useClone /\ ~o.useFreeze}

Init ==
    /\ options \in OptionSets
    /\ state = initialState
    \* Variant A deep-freezes the initial state; variant B freezes its top
    \* level under useFreeze alone, and under useImmer leaves it to
    \* immer.produce(state, draftState => {}), which freezes an untouched
    \* base in some releases of immer and not in others.
    /\ nestedFrozen \in BOOLEAN
    /\ nestedFrozen = TRUE => options.useImmer
    /\ nestedFrozen = FALSE => options.variant = "B"
    /\ topFrozen = (nestedFrozen
                    \/ (~options.useImmer /\ ~options.useClone /\ options.useFreeze))
    /\ isRehydrated = FALSE
    /\ storage = IF options.useLocalStorage THEN initialState ELSE None
    /\ onSaved = IF options.onSave THEN initialState ELSE None
    /\ subs = <<>>
    /\ lastUid = 0
    /\ unsubscribed = {}
    /\ pending = 0
    /\ dispatch = <<>>
    /\ backend = "ok"
    /\ otherSubs = <<>>
    /\ optionsSet = FALSE

\* The variables of the next state, from the world a call leaves.
Commit(w) ==
    /\ state' = w.state
    /\ topFrozen' = w.topFrozen
    /\ nestedFrozen' = w.nestedFrozen
    /\ isRehydrated' = w.isRehydrated
    /\ storage' = w.storage
    /\ onSaved' = w.onSaved
    /\ pending' = w.pending
    /\ dispatch' = w.dispatch

Idle == dispatch = <<>>

(***************************************************************************)
(* Actions: the calls a caller makes from the top level of a turn.         *)
(***************************************************************************)
GetState ==
    /\ Idle
    /\ Commit(getState(World))
    /\ UNCHANGED <<env, options, subs, lastUid, unsubscribed>>

SetState(changes, sync) ==
    /\ Idle
    /\ sync \/ pending < MaxPending
    /\ Commit(setState(World, changes, sync))
    /\ UNCHANGED <<env, options, subs, lastUid, unsubscribed>>

Produce(p, sync) ==
    /\ Idle
    /\ sync \/ pending < MaxPending
    /\ Commit(produce(World, p, sync))
    /\ UNCHANGED <<env, options, subs, lastUid, unsubscribed>>

Rehydrate(changes) ==
    /\ Idle
    /\ pending < MaxPending
    /\ Commit(rehydrate(World, changes))
    /\ UNCHANGED <<env, options, subs, lastUid, unsubscribed>>

MutateReturned(key, v) ==
    /\ Idle
    /\ Commit(mutateReturned(World, key, v))
    /\ UNCHANGED <<env, options, subs, lastUid, unsubscribed>>

\* PubSub.subscribe(stateKey, fn): token = 'uid_' + String(++lastUid).
SubscribeReusing(kind) ==
    /\ Idle
    /\ lastUid < MaxUid
    /\ lastUid' = lastUid + 1
    /\ subs' = Append(subs,
            [token |-> CHOOSE t \in 1..(lastUid + 1) :
                          /\ t \notin Tokens(subs)
                          /\ \A u \in 1..(t - 1) : u \in Tokens(subs),
             kind |-> kind])
    /\ UNCHANGED <<env, options, state, topFrozen, nestedFrozen, isRehydrated,
                   storage, onSaved, unsubscribed, pending, dispatch>>

Subscribe(kind) ==
    /\ Idle
    /\ lastUid < MaxUid
    /\ lastUid' = lastUid + 1
    /\ subs' = Append(subs, [token |-> lastUid + 1, kind |-> kind])
    /\ UNCHANGED <<env, options, state, topFrozen, nestedFrozen, isRehydrated,
                   storage, onSaved, unsubscribed, pending, dispatch>>

SubscribeComponent == Subscribe("component")

SubscribeHook == Subscribe("hook")

\* unSubscribe(token), with a token a subscribe call has returned (PubSub
\* looks for the token in every topic).
UnSubscribe(t) ==
    /\ Idle
    /\ t \in 1..lastUid
    /\ subs' = unsubscribe(subs, t)
    /\ otherSubs' = unsubscribe(otherSubs, t)
    /\ unsubscribed' = unsubscribed \cup {t}
    /\ UNCHANGED <<backend, optionsSet, options, state, topFrozen, nestedFrozen,
                   isRehydrated, storage, onSaved, lastUid, pending, dispatch>>

(***************************************************************************)
(* Delivery.                                                               *)
(***************************************************************************)
\* The timer of a deferred publish fires: deliver() walks the subscribers
\* the topic has now (none, if all have gone).
FireTimer ==
    /\ Idle
    /\ pending > 0
    /\ pending' = pending - 1
    /\ dispatch' = Append(dispatch, NewRound("timer"))
    /\ UNCHANGED <<env, options, state, topFrozen, nestedFrozen, isRehydrated,
                   storage, onSaved, subs, lastUid, unsubscribed>>

\* for (s in subscribers) visits a key only if it is still there.
forInVisits(s, t) == t \in Tokens(s)

\* The subscriber of token t is a subscribeHook one of this container.
isHook(t) == \E i \in 1..Len(subs) : subs[i].token = t /\ subs[i].kind = "hook"

\* callback(getState()): what a subscribeHook callback is handed.
hookArgumentInitial(w) == initialState

hookArgument(w) == getState(w).state

\* The innermost round calls the subscriber of token t, whose body unsubscribes
\* the tokens in drop: the world when the body has run that far. A
\* subscribeHook subscriber is () => callback(getState()), a
\* subscribeComponent one () => component.forceUpdate(); a subscriber of
\* another container reads that container.
callSubscriber(w, t, drop) ==
    LET w1 == IF isHook(t) THEN getState(w) ELSE w
        arg == IF isHook(t) THEN hookArgument(w) ELSE None
    IN  [w1 EXCEPT !.dispatch[Len(w.dispatch)] =
            [@ EXCEPT !.keys = Tail(@),
                      !.called = Append(@, t),
                      !.received = Append(@, arg),
                      !.selfUnsub = @ \cup (drop \cap {t})]]

SetTop(f) == [dispatch EXCEPT ![Len(dispatch)] = f]

\* The round's next key was deleted before it was reached: skipped.
DeliverSkip ==
    /\ ~Idle
    /\ Top.keys # <<>>
    /\ ~forInVisits(subs \o Heard, Head(Top.keys))
    /\ dispatch' = SetTop([Top EXCEPT !.keys = Tail(@)])
    /\ UNCHANGED <<env, options, state, topFrozen, nestedFrozen, isRehydrated,
                   storage, onSaved, subs, lastUid, unsubscribed, pending>>

\* The round calls its next subscriber. A subscribeHook subscriber is
\* () => callback(getState()), a subscribeComponent one () => forceUpdate().
\* The callback's body then unsubscribes the tokens in `drop` (none, its own,
\* another subscriber's).
DeliverCall(drop) ==
    /\ ~Idle
    /\ Top.keys # <<>>
    /\ forInVisits(subs \o Heard, Head(Top.keys))
    /\ Commit(callSubscriber(World, Head(Top.keys), drop))
    /\ subs' = IF drop = {} THEN subs
               ELSE unsubscribe(subs, CHOOSE u \in drop : TRUE)
    /\ otherSubs' = IF drop = {} THEN otherSubs
                    ELSE unsubscribe(otherSubs, CHOOSE u \in drop : TRUE)
    /\ unsubscribed' = unsubscribed \cup drop
    /\ UNCHANGED <<backend, optionsSet, options, lastUid>>

\* The round has walked all its keys: deliver() returns, and with it the
\* synchronous write that published, or the timer callback.
RoundEnd ==
    /\ ~Idle
    /\ Top.keys = <<>>
    /\ dispatch' = SubSeq(dispatch, 1, Len(dispatch) - 1)
    /\ UNCHANGED <<env, options, state, topFrozen, nestedFrozen, isRehydrated,
                   storage, onSaved, subs, lastUid, unsubscribed, pending>>

Drops == {{}} \cup {{t} : t \in 1..MaxUid}

Next ==
    \/ GetState
    \/ \E c \in Changes, sync \in BOOLEAN : SetState(c, sync)
    \/ \E p \in Producers, sync \in BOOLEAN : Produce(p, sync)
    \/ \E c \in Changes : Rehydrate(c)
    \/ \E k \in Keys, v \in Vals : MutateReturned(k, v)
    \/ SubscribeComponent
    \/ SubscribeHook
    \/ \E t \in 1..MaxUid : UnSubscribe(t)
    \/ FireTimer
    \/ DeliverSkip
    \/ \E drop \in Drops : drop \subseteq Tokens(subs \o otherSubs) /\ DeliverCall(drop)
    \/ RoundEnd

Spec == Init /\ [][Next]_vars

(***************************************************************************)
(* Other containers of the page: they share the PubSub module.             *)
(***************************************************************************)
\* subscribeHook / subscribeComponent on the container whose stateKey is
\* `topic`: PubSub.subscribe(topic, ...), the token from the shared counter.
SubscribeOther(topic) ==
    /\ Idle
    /\ lastUid < MaxUid
    /\ lastUid' = lastUid + 1
    /\ otherSubs' = Append(otherSubs,
                           [token |-> lastUid + 1, kind |-> "other", topic |-> topic])
    /\ UNCHANGED <<backend, optionsSet, options, state, topFrozen, nestedFrozen,
                   isRehydrated, storage, onSaved, subs, unsubscribed, pending,
                   dispatch>>

NextShared ==
    \/ Next
    \/ \E topic \in OtherKeys : SubscribeOther(topic)

SharedSpec == Init /\ [][NextShared]_vars

(***************************************************************************)
(* setOptions / getOptions.                                                *)
(***************************************************************************)
\* The options the spec calls structural (the model's containers have no
\* field allow-list: localStorageFields is null throughout).
StructuralKeys == {"useFreeze", "useClone", "useImmer", "useLocalStorage"}

\* The arguments callers hand to setOptions: the live option, and attempts
\* to switch a structural one.
OptionArgs ==
    {[k \in {"useVerbose"} |-> TRUE]}
    \cup UNION {{[k \in {key} |-> b] : b \in BOOLEAN} : key \in StructuralKeys}

\* setOptions: (options) => {} : the body is empty.
setOptionsAssign(o, arg) ==
    [k \in DOMAIN o |-> IF k \in DOMAIN arg THEN arg[k] ELSE o[k]]

setOptions(o, arg) == o

\* getOptions: () => { return _options }
getOptions(o) == o

SetOptions(arg) ==
    /\ Idle
    /\ options' = setOptions(options, arg)
    /\ optionsSet' = TRUE
    /\ UNCHANGED <<backend, otherSubs, state, topFrozen, nestedFrozen,
                   isRehydrated, storage, onSaved, subs, lastUid, unsubscribed,
                   pending, dispatch>>

NextOptions ==
    \/ Next
    \/ \E arg \in OptionArgs : SetOptions(arg)

OptionsSpec == Init /\ [][NextOptions]_vars

(***************************************************************************)
(* The persistence backend.                                                *)
(***************************************************************************)
\* The backend starts to fail (the quota is used up, the storage goes away).
BackendFails ==
    /\ Idle
    /\ backend = "ok"
    /\ backend' = "failing"
    /\ UNCHANGED <<otherSubs, optionsSet, options, state, topFrozen, nestedFrozen,
                   isRehydrated, storage, onSaved, subs, lastUid, unsubscribed,
                   pending, dispatch>>

\* The backend works again.
BackendRecovers ==
    /\ Idle
    /\ backend = "failing"
    /\ backend' = "ok"
    /\ UNCHANGED <<otherSubs, optionsSet, options, state, topFrozen, nestedFrozen,
                   isRehydrated, storage, onSaved, subs, lastUid, unsubscribed,
                   pending, dispatch>>

NextFault ==
    \/ Next
    \/ BackendFails
    \/ BackendRecovers

FaultSpec == Init /\ [][NextFault]_vars

(***************************************************************************)
(* Reentrant calls: a notification callback, or the onSave hook, calls the *)
(* container that is calling it.                                           *)
(***************************************************************************)
\* The round calls its next subscriber, whose body calls setState.
CallbackSetState(changes, sync) ==
    /\ ~Idle
    /\ Top.keys # <<>>
    /\ Len(dispatch) < MaxDepth
    /\ sync \/ pending < MaxPending
    /\ forInVisits(subs, Head(Top.keys))
    /\ Commit(setState(callSubscriber(World, Head(Top.keys), {}), changes, sync))
    /\ UNCHANGED <<env, options, subs, lastUid, unsubscribed>>

\* The round calls its next subscriber, whose body calls produce.
CallbackProduce(p, sync) ==
    /\ ~Idle
    /\ Top.keys # <<>>
    /\ Len(dispatch) < MaxDepth
    /\ sync \/ pending < MaxPending
    /\ forInVisits(subs, Head(Top.keys))
    /\ Commit(produce(callSubscriber(World, Head(Top.keys), {}), p, sync))
    /\ UNCHANGED <<env, options, subs, lastUid, unsubscribed>>

\* The round calls its next subscriber, whose body calls rehydrate.
CallbackRehydrate(changes) ==
    /\ ~Idle
    /\ Top.keys # <<>>
    /\ pending < MaxPending
    /\ forInVisits(subs, Head(Top.keys))
    /\ Commit(rehydrate(callSubscriber(World, Head(Top.keys), {}), changes))
    /\ UNCHANGED <<env, options, subs, lastUid, unsubscribed>>

\* rehydrate(a), the onSave hook calling rehydrate(b).
RehydrateHooked(a, b) ==
    /\ Idle
    /\ pending + 1 < MaxPending
    /\ Commit(rehydrateHooked(World, a, b))
    /\ UNCHANGED <<env, options, subs, lastUid, unsubscribed>>

NextReentrant ==
    \/ Next
    \/ \E c \in Changes, sync \in BOOLEAN : CallbackSetState(c, sync)
    \/ \E p \in Producers, sync \in BOOLEAN : CallbackProduce(p, sync)
    \/ \E c \in Changes : CallbackRehydrate(c)
    \/ \E a, b \in Changes : RehydrateHooked(a, b)

ReentrantSpec == Init /\ [][NextReentrant]_vars

\* A round in progress goes on to its end (callbacks return), and the event
\* loop runs a timer that is due after finitely many other tasks.
RoundStep ==
    \/ DeliverSkip
    \/ \E drop \in Drops : drop \subseteq Tokens(subs \o otherSubs) /\ DeliverCall(drop)
    \/ RoundEnd

FairSpec == Spec /\ WF_vars(RoundStep) /\ SF_vars(FireTimer)

(***************************************************************************)
(* Properties.                                                             *)
(***************************************************************************)
\* The value a getState() call returns in world w.
getStateValue(w) == getState(w).state

\* What a caller and the subscribers can observe of a call's outcome: the
\* snapshot, what was saved, the calls made in their order, the delivery
\* scheduled or started (whichever operation started it).
Observable(w) ==
    [state |-> w.state, storage |-> w.storage, onSaved |-> w.onSaved,
     events |-> w.events, pending |-> w.pending, threw |-> w.threw,
     rounds |-> [i \in 1..Len(w.dispatch) |->
                    [w.dispatch[i] EXCEPT !.origin = "write"]]]

\* The position of the first publish event of a call, 0 if there is none.
PublishAt(ev) ==
    IF \E i \in 1..Len(ev) : ev[i].ev \in {"publish", "publishSync"}
    THEN CHOOSE i \in 1..Len(ev) :
            /\ ev[i].ev \in {"publish", "publishSync"}
            /\ \A j \in 1..(i - 1) : ev[j].ev \notin {"publish", "publishSync"}
    ELSE 0

\* The call made event `kind` with snapshot s before it published.
SavedBeforePublish(w, kind, s) ==
    \E i \in 1..Len(w.events) :
        /\ i < PublishAt(w.events)
        /\ w.events[i] = Event(kind, s)

\* C1: rehydrate(a) and then rehydrate(b), with getState calls in between,
\* leave the initial state with only a's keys merged in: the first rehydrate
\* of a container still in its initial state merges a's keys into it, and a
\* rehydrate call after the first leaves the snapshot as it is.
C1_SingleRehydration ==
    [][\A a \in Changes :
          Rehydrate(a) =>
              /\ (~isRehydrated /\ state = initialState)
                    => getStateValue(rehydrate(World, a)) = assign(initialState, a)
                       /\ state' = assign(initialState, a)
              /\ isRehydrated => state' = state]_vars

\* C3: every write (setState or produce) calls save and onSave with the
\* snapshot it produced, before it publishes its notification.
C3_SaveBeforeNotify ==
    [][/\ \A c \in Changes, sync \in BOOLEAN :
             SetState(c, sync) /\ state.tag = "obj" =>
                 LET w == setState(World, c, sync)
                 IN  /\ options.useLocalStorage
                           => SavedBeforePublish(w, "save", assign(state, c))
                     /\ options.onSave
                           => SavedBeforePublish(w, "onSave", assign(state, c))
       /\ \A p \in Producers, sync \in BOOLEAN :
             Produce(p, sync) /\ state.tag = "obj" =>
                 LET w == produce(World, p, sync)
                 IN  /\ options.useLocalStorage
                           => SavedBeforePublish(w, "save", applyProducer(p, state))
                     /\ options.onSave
                           => SavedBeforePublish(w, "onSave", applyProducer(p, state))
      ]_vars

\* C4: after setState(changes), getState() returns the prior snapshot with
\* the keys of changes replaced and the other fields as they were, under
\* either mutation strategy.
C4_SetStateMerges ==
    [][\A c \in Changes, sync \in BOOLEAN :
          SetState(c, sync) /\ state.tag = "obj" =>
              /\ state' = assign(state, c)
              /\ getStateValue(setState(World, c, sync)) = assign(state, c)]_vars

\* C5: after produce(fn), getState() returns the prior snapshot with fn's
\* edits applied, under either mutation strategy.
C5_ProduceApplies ==
    [][\A p \in Producers, sync \in BOOLEAN :
          Produce(p, sync) /\ state.tag = "obj" =>
              /\ state' = applyProducer(p, state)
              /\ getStateValue(produce(World, p, sync)) = applyProducer(p, state)]_vars

\* C6: setState(changes, s) and produce(draft => assign(draft, changes), s)
\* have the same outcome from the same container state: next snapshot,
\* save/onSave calls, notification.
C6_SetStateIsProduce ==
    [][\A c \in Changes, sync \in BOOLEAN :
          SetState(c, sync) =>
              Observable(setState(World, c, sync))
                  = Observable(produce(World, AssignProducer(c), sync))]_vars

\* C9: with useFreeze or structural sharing, a caller's attempt to write a
\* field (top-level or nested) of what getState() returned does not change
\* what getState() returns next.
C9_Immutability ==
    [][\A k \in Keys, v \in Vals :
          MutateReturned(k, v) /\ (options.useFreeze \/ options.useImmer) =>
              /\ state' = state
              /\ getStateValue(mutateReturned(World, k, v)) = getStateValue(World)]_vars

Range(q) == {q[i] : i \in 1..Len(q)}
Count(q, t) == Cardinality({i \in 1..Len(q) : q[i] = t})
Frames == Range(dispatch)

\* A step in which the innermost round calls a subscriber; Called is the token.
CallStep ==
    /\ dispatch # <<>>
    /\ Len(dispatch') = Len(dispatch)
    /\ Len(dispatch'[Len(dispatch)].called) = Len(Top.called) + 1
Called == LET q == dispatch'[Len(dispatch)].called IN q[Len(q)]

\* A step in which a round starts / in which the innermost round returns.
RoundStarts == Len(dispatch') = Len(dispatch) + 1
RoundReturns == Len(dispatch') = Len(dispatch) - 1

\* C2: with n tokens subscribed, setState(changes, true) calls each of the n
\* callbacks exactly once, in subscription order, before it returns: the call
\* starts a round over the n tokens (and defers nothing), the round calls them
\* in order, and the call returns only when all n have been called. (Callbacks
\* that unsubscribe are the subject of C7 and C8: the statement is about the
\* rounds in which no token of the round has been unsubscribed.)
C2_FanOut ==
    /\ [](Idle /\ subs # <<>> =>
             \A c \in Changes :
                 LET w == setState(World, c, TRUE)
                 IN  /\ w.pending = pending
                     /\ Len(w.dispatch) = 1
                     /\ w.dispatch[1].origin = "setState"
                     /\ w.dispatch[1].start = TokenSeq(subs)
                     /\ w.dispatch[1].keys = TokenSeq(subs)
                     /\ w.dispatch[1].called = <<>>)
    /\ [](\A f \in Frames :
             f.origin = "setState" /\ Range(f.start) \cap unsubscribed = {}
                 => f.called \o f.keys = f.start)
    /\ [][RoundReturns /\ Top.origin = "setState"
             /\ Range(Top.start) \cap unsubscribed = {}
                 => Top.called = Top.start]_vars

C2_Witness ==
    /\ dispatch # <<>>
    /\ Top.origin = "setState"
    /\ Top.keys = <<>>
    /\ Len(Top.start) = 2
    /\ Top.called = Top.start

\* C7: a callback that unsubscribes its own token during a synchronous round
\* does not stop delivery to the others: when the round is over, every token
\* of the round that nobody unsubscribed has been called exactly once (and no
\* token more than once); and no later round includes a token that has been
\* unsubscribed, so the callback is not called again.
C7_SelfUnsubscribe ==
    /\ [](\A f \in Frames :
             /\ \A t \in Range(f.called) : t \in Range(f.start) /\ Count(f.called, t) = 1
             /\ f.origin # "timer" /\ f.keys = <<>> =>
                   \A t \in Range(f.start) \ unsubscribed : Count(f.called, t) = 1)
    /\ [][RoundStarts =>
             Range(dispatch'[Len(dispatch')].start) \cap unsubscribed = {}]_vars

C7_Witness ==
    /\ dispatch # <<>>
    /\ Top.origin # "timer"
    /\ Top.keys = <<>>
    /\ \E i, j \in 1..Len(Top.called) :
          /\ i < j
          /\ Top.called[i] \in Top.selfUnsub
          /\ Top.called[j] \notin unsubscribed

\* C8: once unSubscribe(token) has returned, the token's callback is not
\* called again, whether in the rest of a round in progress, in a deferred
\* round scheduled before the unsubscribe, or in the round of a later write.
C8_NoCallAfterUnsubscribe ==
    [][CallStep => Called \notin unsubscribed /\ Called \in Tokens(subs)]_vars

\* A round in progress has passed over a token that a callback of the round
\* unsubscribed before its turn, and a deferred round has passed over nobody
\* while a token unsubscribed after the write that scheduled it is gone.
C8_Witness ==
    /\ dispatch # <<>>
    /\ Top.keys = <<>>
    /\ \E t \in Range(Top.start) : t \in unsubscribed /\ t \notin Range(Top.called)

DeferredOutcome(w) ==
    /\ w.dispatch = dispatch
    /\ w.threw => w.pending = pending
    /\ ~w.threw => w.pending = pending + (IF subs # <<>> THEN 1 ELSE 0)

C11_ReentrantWrites ==
    /\ [][/\ \A c \in Changes, sync \in BOOLEAN :
               CallbackSetState(c, sync) =>
                   state' = assign(state, c) /\ subs' = subs
          /\ \A p \in Producers, sync \in BOOLEAN :
               CallbackProduce(p, sync) =>
                   state' = applyProducer(p, state) /\ subs' = subs]_vars
    /\ [](\A f \in Frames :
             f.keys = <<>> /\ Range(f.start) \cap unsubscribed = {}
                 => f.called = f.start)

\* The fallback initialState a fresh container may be given.
Fallbacks == {Obj(0, 0), Obj(1, 1)}

\* C12: with useLocalStorage on (and no field allow-list), after every
\* setState or produce write a fresh container created with the same
\* stateKey and version, whatever its fallback, starts with a getState()
\* equal to the first container's snapshot; created with another version it
\* starts from its fallback.
C12_PersistenceRoundTrip ==
    [][(\/ \E c \in Changes, sync \in BOOLEAN : SetState(c, sync)
        \/ \E p \in Producers, sync \in BOOLEAN : Produce(p, sync))
       /\ options.useLocalStorage
          => \A fb \in Fallbacks :
                /\ createMidboss(storage', fb, TRUE) = state'
                /\ createMidboss(storage', fb, FALSE) = fb]_vars

\* The persistence save failed during the call that made world w.
SaveFailedIn(w) == \E i \in 1..Len(w.events) : w.events[i].ev = "saveFailed"

\* C13: when the persistence save fails during a setState or produce call,
\* nothing is thrown to the caller, the write completes with its new snapshot
\* returned by getState(), and the write's notification is published.
C13_SaveFailureSwallowed ==
    [][/\ \A c \in Changes, sync \in BOOLEAN :
             LET w == setState(World, c, sync)
             IN  SetState(c, sync) /\ SaveFailedIn(w) =>
                     /\ ~w.threw
                     /\ state' = assign(state, c)
                     /\ getStateValue(w) = assign(state, c)
                     /\ PublishAt(w.events) > 0
       /\ \A p \in Producers, sync \in BOOLEAN :
             LET w == produce(World, p, sync)
             IN  Produce(p, sync) /\ SaveFailedIn(w) =>
                     /\ ~w.threw
                     /\ state' = applyProducer(p, state)
                     /\ getStateValue(w) = applyProducer(p, state)
                     /\ PublishAt(w.events) > 0]_vars

\* C14: getState() is a pure read: it leaves the snapshot as it is, calls
\* neither the persistence save nor onSave, publishes nothing, and a second
\* getState() right after it returns an equal value.
C14_GetStatePure ==
    [][GetState =>
          LET w == getState(World)
          IN  /\ state' = state
              /\ w.events = <<>>
              /\ storage' = storage /\ onSaved' = onSaved
              /\ pending' = pending /\ dispatch' = dispatch
              /\ getStateValue(w) = getStateValue(World)]_vars

\* The structural options a getOptions() result reports.
Structural(o) == [k \in StructuralKeys |-> o[k]]

\* C15: the structural options are fixed at construction: whatever setOptions
\* is called with, and however often, getOptions() reports the structural
\* values it reported before the call (so those of construction), and the
\* call returns normally from every state.
C15_StructuralOptionsFixed ==
    /\ [][Structural(getOptions(options')) = Structural(getOptions(options))]_vars
    /\ [](Idle => \A arg \in OptionArgs :
             /\ ENABLED SetOptions(arg)
             /\ Structural(getOptions(setOptions(options, arg)))
                   = Structural(getOptions(options)))

\* setOptions has been called on a container that has been written to.
C15_Witness ==
    /\ optionsSet
    /\ state # initialState
    /\ options \in OptionSets

\* C16: a write on a container notifies only the tokens subscribed through
\* that container: no delivery of this container's writes, synchronous or
\* deferred, calls a subscriber of a container with another stateKey.
C16_Isolation ==
    [][CallStep => Called \notin Tokens(otherSubs)]_vars

\* The tokens subscribe calls have returned so far: those subscribed and
\* those since unsubscribed.
Issued == Tokens(subs) \cup unsubscribed

\* C17: tokens are never reused: the token a subscribeHook or
\* subscribeComponent call returns differs from every token returned before,
\* those since unsubscribed included (and so the subscribed tokens are
\* pairwise different).
C17_TokensNeverReused ==
    /\ [][Len(subs') = Len(subs) + 1 =>
             /\ subs'[Len(subs')].token \notin Issued
             /\ SubSeq(subs', 1, Len(subs)) = subs]_vars
    /\ [](\A i, j \in 1..Len(subs) : subs[i].token = subs[j].token => i = j)

\* Token 1 has been unsubscribed and the only subscriber holds token 2.
C17_Witness ==
    /\ 1 \in unsubscribed
    /\ TokenSeq(subs) = <<2>>

\* The rehydrate calls that applied their changes in the call that made
\* world w: each runs setState once, and each setState publishes once.
RehydratesApplied(w) ==
    Cardinality({i \in 1..Len(w.events) : w.events[i].ev = "publish"})

\* C18: at most one rehydrate call per container applies its changes, also
\* when rehydrate is called again while the first call's write is in progress
\* (from the onSave hook) or from a notification callback of that write: a
\* rehydrate call that begins after the first began applying changes nothing.
\* (Stated of the calls made while a token is subscribed, where every apply
\* shows as a scheduled round.)
C18_SingleRehydrateReentrant ==
    [][/\ \A a, b \in Changes :
             RehydrateHooked(a, b) /\ subs # <<>> =>
                 /\ RehydratesApplied(rehydrateHooked(World, a, b))
                       <= (IF isRehydrated THEN 0 ELSE 1)
                 /\ pending' <= pending + 1
       /\ \A c \in Changes :
             CallbackRehydrate(c) /\ isRehydrated =>
                 state' = state /\ pending' = pending
       /\ isRehydrated => isRehydrated']_vars

\* The argument the subscriber called in a CallStep was handed.
Received == LET q == dispatch'[Len(dispatch)].received IN q[Len(q)]

\* C19: a subscribeHook callback is handed the snapshot that is current when
\* it is called, which is what a getState() call at that moment returns, in a
\* synchronous round and in a deferred round alike: a deferred round that
\* fires after further writes hands out the latest snapshot, not the one of
\* the write that scheduled it.
C19_HookGetsCurrentSnapshot ==
    [][CallStep /\ isHook(Called) =>
          /\ Received = getStateValue(World)
          /\ Received = state
          /\ state' = state]_vars

\* A deferred round, fired while the round of a later write still waits, has
\* handed a hook the snapshot now current, which is not the initial one.
C19_Witness ==
    /\ pending = 1
    /\ state # initialState
    /\ state.tag = "obj"
    /\ \E f \in Frames :
          /\ f.origin = "timer"
          /\ \E i \in 1..Len(f.received) : f.received[i] = state

\* The last call a write made in world w: its publish.
LastEvent(w) == w.events[Len(w.events)].ev

\* C20: with sync left out, setState publishes deferred (it schedules the
\* delivery and calls nobody) and produce publishes synchronously (its
\* delivery starts inside the call and nothing is scheduled); so rehydrate,
\* which calls setState without sync, calls no subscriber before it returns.
C20_DefaultSync ==
    /\ [](Idle =>
             /\ \A c \in Changes :
                   LET w == setState(World, c, syncDefaultSetState)
                   IN  /\ LastEvent(w) = "publish"
                       /\ w.dispatch = dispatch
                       /\ subs # <<>> => w.pending = pending + 1
             /\ \A p \in Producers :
                   LET w == produce(World, p, syncDefaultProduce)
                   IN  ~w.threw =>
                           /\ LastEvent(w) = "publishSync"
                           /\ w.pending = pending
                           /\ subs # <<>> =>
                                 /\ Len(w.dispatch) = 1
                                 /\ w.dispatch[1].origin = "produce"
                                 /\ w.dispatch[1].keys = TokenSeq(subs))
    /\ [][\A c \in Changes :
             Rehydrate(c) =>
                 /\ dispatch' = dispatch
                 /\ ~isRehydrated /\ subs # <<>> => pending' = pending + 1]_vars

\* rehydrate has applied its changes on a container with a subscriber: the
\* delivery waits and no round is in progress.
C20_Witness ==
    /\ isRehydrated
    /\ subs # <<>>
    /\ pending = 1
    /\ dispatch = <<>>
    /\ state # initialState

====
